---- MODULE Spec2Model ----
(***************************************************************************)
(* RvizViewer of glim_ros2 (src/src/glim_ros/rviz_viewer.cpp).             *)
(*                                                                         *)
(* Threads:                                                                *)
(*   frame thread     frontend_new_frame            (odometry estimator)   *)
(*   batch thread     globalmap_on_update_submaps   (global mapping)       *)
(*   scheduler thread the lambda started by the constructor (spin_once)    *)
(*   owner thread     ~RvizViewer                                          *)
(*                                                                         *)
(* Rigid transforms are modelled by the subgroup of SE(3) generated by the *)
(* half turn about the z axis and the translations along the x axis: the   *)
(* pair <<s, t>> is the map x |-> s*x + t with s in {1,-1}.  The subgroup  *)
(* is not commutative.  Points are points of the x axis.                   *)
(***************************************************************************)
EXTENDS Integers, Sequences, FiniteSets, TLC

(* ------------------------------ bounds -------------------------------- *)
NumSubmaps == 2
MaxBatchLen == 2
MaxBatches == 2
MaxFrames == 1
MaxWorkTicks == 3
Tick == 5

(* -------------------------- rigid transforms -------------------------- *)
Identity == <<1, 0>>

Compose(a, b) == <<a[1] * b[1], a[1] * b[2] + a[2]>>

Inverse(a) == <<a[1], (0 - a[1]) * a[2]>>

Apply(a, p) == a[1] * p + a[2]

(* ------------------------ estimator side data ------------------------- *)
SubmapIds == 1..NumSubmaps

\* SubMap::frame : the point set of a submap (x coordinates), of size s.
PointsOf(s) == [j \in 1..s |-> 10 * s + j]

\* SubMap::T_world_origin as first estimated, and as re-estimated later.
InitPose(s) == IF s = 1 THEN Identity ELSE IF s % 2 = 0 THEN <<1, 10 * s>> ELSE <<0 - 1, 3 * s>>

OptimizedPose(s) == Compose(<<1, 1>>, InitPose(s))

\* SubMap::T_origin_endpoint_R and the stamp of SubMap::odom_frames.back().
EndpointOf(s) == <<1, s>>

EndStamp(s) == IF s <= MaxFrames THEN s ELSE MaxFrames

\* EstimationFrame::T_world_imu (pose in the odometry frame) of frame k,
\* EstimationFrame::T_lidar_imu, EstimationFrame::frame_id.
OdomPose(k) == IF k % 2 = 1 THEN <<0 - 1, 2 * k>> ELSE <<1, 3 * k>>

T_lidar_imu_ext == <<1, 1>>

FrameIds == {"LIDAR", "IMU", "WORLD"}

\* the batches the estimator may pass: non-empty lists of submaps, in the
\* order the submaps were created
RECURSIVE SeqsUpTo(_)
SeqsUpTo(n) == IF n = 0 THEN {<<>>} ELSE SeqsUpTo(n - 1) \cup {Append(q, s) : q \in {r \in SeqsUpTo(n - 1) : Len(r) = n - 1}, s \in SubmapIds}

Range(q) == {q[i] : i \in 1..Len(q)}

Batches == {q \in SeqsUpTo(MaxBatchLen) : Len(q) >= 1 /\ \A i \in 1..(Len(q) - 1) : q[i] < q[i + 1]}

(* --------------------------- frame names ------------------------------ *)
imu_frame_id == "imu"

lidar_frame_id == "lidar"

odom_frame_id == "odom"

world_frame_id == "world"

(* ------------------- TrajectoryManager (AlignmentTracker) ------------- *)
\* state: the recorded odometry samples and the anchor
TrajectoryInit == [samples |-> <<>>, anchor_world |-> Identity, anchor_odom |-> Identity]

add_odom(tr, stamp, pose) == [tr EXCEPT !.samples = Append(@, <<stamp, pose>>)]

get_T_world_odom(tr) == Compose(tr.anchor_world, Inverse(tr.anchor_odom))

odom2world(tr, pose) == Compose(get_T_world_odom(tr), pose)

\* the odometry pose last seen at or before stamp (Identity when there is none)
OdomAtOrBefore(tr, stamp) ==
  LET idx == {i \in 1..Len(tr.samples) : tr.samples[i][1] <= stamp}
  IN IF idx = {} THEN Identity ELSE tr.samples[CHOOSE i \in idx : \A j \in idx : j <= i][2]

update_anchor(tr, stamp, pose) == [tr EXCEPT !.anchor_world = pose, !.anchor_odom = OdomAtOrBefore(tr, stamp)]

(* ------------------------------ state --------------------------------- *)
VARIABLES
  livePose,            \* estimator: SubMap::T_world_origin of every submap
  nFrames,             \* estimator: frames emitted so far (stamp of the last)
  nBatches,            \* estimator: submap batch events emitted so far
  traj,                \* RvizViewer::trajectory
  trajectory_mutex,    \* holder of RvizViewer::trajectory_mutex
  invoke_queue_mutex,  \* holder of RvizViewer::invoke_queue_mutex
  invoke_queue,        \* RvizViewer::invoke_queue
  submaps,             \* RvizViewer::submaps (the retained frames)
  kill_switch,         \* RvizViewer::kill_switch
  pc_f, fr,            \* frame thread: position and locals of frontend_new_frame
  pc_m, bt,            \* batch thread: position and locals of globalmap_on_update_submaps
  pc_s, idx, cur,      \* scheduler thread: position, range-for position, running task
  elapsed, slept, gap, \* scheduler thread: t2 - t1; <<the sleep taken>>; <<time from t1 to the end of the cycle>>
  pc_d,                \* owner thread: position in ~RvizViewer
  fev,                 \* what the last new-frame event read and emitted, in order
  nTasks, executed,    \* tasks pushed so far; ids of the tasks run, in order
  map_out, nMaps       \* the last message on /glim_ros/map; messages per task

vars == <<livePose, nFrames, nBatches, traj, trajectory_mutex, invoke_queue_mutex, invoke_queue, submaps, kill_switch, pc_f, fr, pc_m, bt, pc_s, idx, cur, elapsed, slept, gap, pc_d, fev, nTasks, executed, map_out, nMaps>>

estVars == <<livePose, nFrames, nBatches>>

frameVars == <<pc_f, fr, fev>>

batchVars == <<pc_m, bt>>

schedVars == <<pc_s, idx, cur, elapsed, slept, gap>>

taskVars == <<submaps, executed, map_out, nMaps>>

queueVars == <<invoke_queue, invoke_queue_mutex, nTasks>>

Period == 10

Durations == {d * Tick : d \in 0..MaxWorkTicks}

NoTask == [id |-> 0, latest |-> 0, poses |-> <<>>, batch |-> <<>>]

NoFrame == [stamp |-> 0, frame_id |-> "IMU", T_odom_imu |-> Identity, T_lidar_imu |-> Identity, T_world_odom |-> Identity, T_world_imu |-> Identity]

NoBatch == [batch |-> <<>>, latest |-> 0, stamp |-> 0, T_world_endpoint |-> Identity, poses |-> <<>>]

NoEvent == [stamp |-> 0, sub_points |-> FALSE, sub_odom |-> FALSE, sub_pose |-> FALSE, msgs |-> <<>>]

NoMap == [task |-> 0, frame |-> "", num_points |-> 0, points |-> <<>>, retained |-> <<>>, batch |-> <<>>, poses |-> <<>>]

\* the process runs: it has not been torn down by an out-of-range read or by an
\* exception that left the scheduler thread
Running == pc_s # "crashed"

Init ==
  /\ livePose = [s \in SubmapIds |-> InitPose(s)]
  /\ nFrames = 0
  /\ nBatches = 0
  /\ traj = TrajectoryInit
  /\ trajectory_mutex = "free"
  /\ invoke_queue_mutex = "free"
  /\ invoke_queue = <<>>
  /\ submaps = <<>>
  /\ kill_switch = FALSE
  /\ pc_f = "idle"
  /\ fr = NoFrame
  /\ pc_m = "idle"
  /\ bt = NoBatch
  /\ pc_s = "loop"
  /\ idx = 1
  /\ cur = NoTask
  /\ elapsed = 0
  /\ slept = <<>>
  /\ gap = <<>>
  /\ pc_d = "alive"
  /\ fev = NoEvent
  /\ nTasks = 0
  /\ executed = <<>>
  /\ map_out = NoMap
  /\ nMaps = 0

(* --------------------------- frame thread ----------------------------- *)
Msg(kind, parent, child, T) == [kind |-> kind, parent |-> parent, child |-> child, T |-> T]

FrameName(fid) == CASE fid = "LIDAR" -> lidar_frame_id [] fid = "IMU" -> imu_frame_id [] fid = "WORLD" -> world_frame_id [] OTHER -> ""

\* lines 59-88: the subscriber-gated point publish and the local copies
FrameStart ==
  /\ Running /\ pc_d # "destroyed"
  /\ pc_f = "idle"
  /\ nFrames < MaxFrames
  /\ \E fid \in FrameIds, sub \in BOOLEAN :
       /\ fr' = [NoFrame EXCEPT !.stamp = nFrames + 1, !.frame_id = fid, !.T_odom_imu = OdomPose(nFrames + 1), !.T_lidar_imu = T_lidar_imu_ext]
       /\ fev' = [NoEvent EXCEPT !.stamp = nFrames + 1, !.sub_points = sub,
                                !.msgs = IF sub THEN <<Msg("points", FrameName(fid), "", Identity)>> ELSE <<>>]
  /\ nFrames' = nFrames + 1
  /\ pc_f' = "lock"
  /\ UNCHANGED <<livePose, nBatches, traj, trajectory_mutex, kill_switch, batchVars, schedVars, pc_d, taskVars, queueVars>>

\* line 91
FrameLock ==
  /\ Running
  /\ pc_f = "lock"
  /\ trajectory_mutex = "free"
  /\ trajectory_mutex' = "frame"
  /\ pc_f' = "add_odom"
  /\ UNCHANGED <<estVars, traj, kill_switch, fr, fev, batchVars, schedVars, pc_d, taskVars, queueVars>>

\* line 92
FrameAddOdom ==
  /\ Running
  /\ pc_f = "add_odom"
  /\ traj' = add_odom(traj, fr.stamp, fr.T_odom_imu)
  /\ pc_f' = "read_odom"
  /\ UNCHANGED <<estVars, trajectory_mutex, kill_switch, fr, fev, batchVars, schedVars, pc_d, taskVars, queueVars>>

\* a lock scope that ends after the first read
FrameReadWorldOdomUnlock ==
  /\ Running
  /\ pc_f = "read_odom"
  /\ fr' = [fr EXCEPT !.T_world_odom = get_T_world_odom(traj)]
  /\ trajectory_mutex' = "free"
  /\ pc_f' = "read_imu"
  /\ UNCHANGED <<estVars, traj, kill_switch, fev, batchVars, schedVars, pc_d, taskVars, queueVars>>

\* lines 93-94
FrameReadWorldOdom ==
  /\ Running
  /\ pc_f = "read_odom"
  /\ fr' = [fr EXCEPT !.T_world_odom = get_T_world_odom(traj)]
  /\ pc_f' = "read_imu"
  /\ UNCHANGED <<estVars, traj, trajectory_mutex, kill_switch, fev, batchVars, schedVars, pc_d, taskVars, queueVars>>

\* lines 96-98
FrameReadWorldImu ==
  /\ Running
  /\ pc_f = "read_imu"
  /\ fr' = [fr EXCEPT !.T_world_imu = odom2world(traj, fr.T_odom_imu)]
  /\ trajectory_mutex' = "free"
  /\ pc_f' = "publish"
  /\ UNCHANGED <<estVars, traj, kill_switch, fev, batchVars, schedVars, pc_d, taskVars, queueVars>>

\* the world -> odom broadcast sent first
BroadcastsWorldFirst(f) ==
  << Msg("tf", world_frame_id, odom_frame_id, f.T_world_odom),
     Msg("tf", odom_frame_id, imu_frame_id, f.T_odom_imu),
     Msg("tf", imu_frame_id, lidar_frame_id, f.T_lidar_imu) >>

\* lines 100-136: the three broadcasts, in the order of the sendTransform calls
Broadcasts(f) ==
  << Msg("tf", odom_frame_id, imu_frame_id, f.T_odom_imu),
     Msg("tf", imu_frame_id, lidar_frame_id, f.T_lidar_imu),
     Msg("tf", world_frame_id, odom_frame_id, f.T_world_odom) >>

\* an odometry publish that does not look at the subscriber count
OdomMsgsUngated(f, sub) == <<Msg("odom", odom_frame_id, imu_frame_id, f.T_odom_imu)>>

\* lines 138-151 and 153-165
OdomMsgs(f, sub) == IF sub THEN <<Msg("odom", odom_frame_id, imu_frame_id, f.T_odom_imu)>> ELSE <<>>

PoseMsgs(f, sub) == IF sub THEN <<Msg("pose", world_frame_id, "", f.T_world_imu)>> ELSE <<>>

\* lines 100-166
FramePublish ==
  /\ Running
  /\ pc_f = "publish"
  /\ \E sub_odom \in BOOLEAN, sub_pose \in BOOLEAN :
       fev' = [fev EXCEPT !.sub_odom = sub_odom, !.sub_pose = sub_pose,
                          !.msgs = @ \o Broadcasts(fr) \o OdomMsgs(fr, sub_odom) \o PoseMsgs(fr, sub_pose)]
  /\ fr' = NoFrame
  /\ pc_f' = "idle"
  /\ UNCHANGED <<estVars, traj, trajectory_mutex, kill_switch, batchVars, schedVars, pc_d, taskVars, queueVars>>

(* --------------------------- batch thread ----------------------------- *)
\* between two events the estimator re-estimates the world poses of the submaps
EstimatorOptimize ==
  /\ Running
  /\ pc_m = "idle"
  /\ livePose = [s \in SubmapIds |-> InitPose(s)]
  /\ livePose' = [s \in SubmapIds |-> OptimizedPose(s)]
  /\ UNCHANGED <<nFrames, nBatches, traj, trajectory_mutex, kill_switch, frameVars, batchVars, schedVars, pc_d, taskVars, queueVars>>

\* lines 168-172
BatchStart ==
  /\ Running /\ pc_d # "destroyed"
  /\ pc_m = "idle"
  /\ nBatches < MaxBatches
  /\ \E b \in Batches :
       LET latest_submap == b[Len(b)]
       IN bt' = [NoBatch EXCEPT !.batch = b, !.latest = latest_submap, !.stamp = EndStamp(latest_submap),
                                !.T_world_endpoint = Compose(livePose[latest_submap], EndpointOf(latest_submap))]
  /\ nBatches' = nBatches + 1
  /\ pc_m' = "lock"
  /\ UNCHANGED <<livePose, nFrames, traj, trajectory_mutex, kill_switch, frameVars, schedVars, pc_d, taskVars, queueVars>>

\* line 174
BatchLock ==
  /\ Running
  /\ pc_m = "lock"
  /\ trajectory_mutex = "free"
  /\ trajectory_mutex' = "batch"
  /\ pc_m' = "anchor"
  /\ UNCHANGED <<estVars, traj, kill_switch, frameVars, bt, schedVars, pc_d, taskVars, queueVars>>

\* an invoke called from inside the scope of the alignment lock
BatchUpdateAnchorHold ==
  /\ Running
  /\ pc_m = "anchor"
  /\ traj' = update_anchor(traj, bt.stamp, bt.T_world_endpoint)
  /\ pc_m' = "capture"
  /\ UNCHANGED <<estVars, trajectory_mutex, kill_switch, frameVars, bt, schedVars, pc_d, taskVars, queueVars>>

\* an anchor update that hands over the origin pose of the submap instead of
\* the pose of its end
BatchUpdateAnchorOrigin ==
  /\ Running
  /\ pc_m = "anchor"
  /\ traj' = update_anchor(traj, bt.stamp, livePose[bt.latest])
  /\ trajectory_mutex' = "free"
  /\ pc_m' = "capture"
  /\ UNCHANGED <<estVars, kill_switch, frameVars, bt, schedVars, pc_d, taskVars, queueVars>>

\* lines 175-176
BatchUpdateAnchor ==
  /\ Running
  /\ pc_m = "anchor"
  /\ traj' = update_anchor(traj, bt.stamp, bt.T_world_endpoint)
  /\ trajectory_mutex' = "free"
  /\ pc_m' = "capture"
  /\ UNCHANGED <<estVars, kill_switch, frameVars, bt, schedVars, pc_d, taskVars, queueVars>>

\* lines 178-181: submap_poses[i] = submaps[i]->T_world_origin
CapturePoses(b, poses) == [i \in 1..Len(b) |-> poses[b[i]]]

BatchCapture ==
  /\ Running
  /\ pc_m = "capture"
  /\ bt' = [bt EXCEPT !.poses = CapturePoses(bt.batch, livePose)]
  /\ pc_m' = "invoke"
  /\ UNCHANGED <<estVars, traj, trajectory_mutex, kill_switch, frameVars, schedVars, pc_d, taskVars, queueVars>>

\* line 214
InvokeLock ==
  /\ Running
  /\ pc_m = "invoke"
  /\ invoke_queue_mutex = "free"
  /\ invoke_queue_mutex' = "batch"
  /\ pc_m' = "push"
  /\ UNCHANGED <<estVars, traj, trajectory_mutex, kill_switch, frameVars, bt, schedVars, pc_d, taskVars, invoke_queue, nTasks>>

\* line 183: the closure [this, latest_submap, submap_poses]
MakeTask(n, b) == [id |-> n, latest |-> b.latest, poses |-> b.poses, batch |-> b.batch]

\* an invoke that runs the append on the calling thread
InvokePushInline ==
  /\ Running
  /\ pc_m = "push"
  /\ invoke_queue' = Append(invoke_queue, [id |-> nTasks + 1, latest |-> bt.latest, poses |-> bt.poses, batch |-> bt.batch])
  /\ nTasks' = nTasks + 1
  /\ submaps' = Append(submaps, bt.latest)
  /\ invoke_queue_mutex' = "free"
  /\ bt' = NoBatch
  /\ pc_m' = "idle"
  /\ UNCHANGED <<estVars, traj, trajectory_mutex, kill_switch, frameVars, schedVars, pc_d, executed, map_out, nMaps>>

\* lines 215-216, and the return of the callback (line 211)
InvokePush ==
  /\ Running
  /\ pc_m = "push"
  /\ invoke_queue' = Append(invoke_queue, MakeTask(nTasks + 1, bt))
  /\ nTasks' = nTasks + 1
  /\ invoke_queue_mutex' = "free"
  /\ bt' = NoBatch
  /\ pc_m' = "idle"
  /\ UNCHANGED <<estVars, traj, trajectory_mutex, kill_switch, frameVars, schedVars, pc_d, taskVars>>

(* ------------------------- scheduler thread --------------------------- *)
\* a loop that does not test the flag
SchedBeginUnchecked ==
  /\ Running
  /\ pc_s = "loop"
  /\ elapsed' = 0
  /\ slept' = <<>>
  /\ gap' = <<>>
  /\ pc_s' = "spin"
  /\ UNCHANGED <<estVars, traj, trajectory_mutex, kill_switch, frameVars, batchVars, idx, cur, pc_d, taskVars, queueVars>>

\* line 35 with kill_switch false, line 37: t1
SchedBegin ==
  /\ Running
  /\ pc_s = "loop"
  /\ ~kill_switch
  /\ elapsed' = 0
  /\ slept' = <<>>
  /\ gap' = <<>>
  /\ pc_s' = "spin"
  /\ UNCHANGED <<estVars, traj, trajectory_mutex, kill_switch, frameVars, batchVars, idx, cur, pc_d, taskVars, queueVars>>

\* line 35 with kill_switch true: the thread function returns
SchedExit ==
  /\ Running
  /\ pc_s = "loop"
  /\ kill_switch
  /\ pc_s' = "exited"
  /\ UNCHANGED <<estVars, traj, trajectory_mutex, kill_switch, frameVars, batchVars, idx, cur, elapsed, slept, gap, pc_d, taskVars, queueVars>>

\* line 219, line 220 (begin of the range-for)
SpinLock ==
  /\ Running
  /\ pc_s = "spin"
  /\ invoke_queue_mutex = "free"
  /\ invoke_queue_mutex' = "sched"
  /\ idx' = 1
  /\ pc_s' = "drain"
  /\ UNCHANGED <<estVars, traj, trajectory_mutex, kill_switch, frameVars, batchVars, cur, elapsed, slept, gap, pc_d, taskVars, invoke_queue, nTasks>>

\* a range-for that stops one element early
DrainDoneEarly(i, q) == i >= Len(q)

\* line 220: the range-for has reached end()
DrainDone(i, q) == i > Len(q)

\* lines 221 and 184: the task starts, and retains the frame of the latest submap
TaskStart ==
  /\ Running
  /\ pc_s = "drain"
  /\ ~DrainDone(idx, invoke_queue)
  /\ cur' = invoke_queue[idx]
  /\ submaps' = Append(submaps, invoke_queue[idx].latest)
  /\ pc_s' = "task"
  /\ UNCHANGED <<estVars, traj, trajectory_mutex, kill_switch, frameVars, batchVars, idx, elapsed, slept, gap, pc_d, executed, map_out, nMaps, queueVars>>

\* a task that publishes the previous cloud again when nobody listens
TaskSkipRepublish ==
  /\ Running
  /\ pc_s = "task"
  /\ executed' = Append(executed, cur.id)
  /\ nMaps' = nMaps + 1
  /\ idx' = idx + 1
  /\ pc_s' = "drain"
  /\ UNCHANGED <<estVars, traj, trajectory_mutex, kill_switch, frameVars, batchVars, cur, elapsed, slept, gap, pc_d, submaps, map_out, queueVars>>

\* lines 186-188: nobody listens on /glim_ros/map, the task returns
TaskSkip ==
  /\ Running
  /\ pc_s = "task"
  /\ executed' = Append(executed, cur.id)
  /\ idx' = idx + 1
  /\ pc_s' = "drain"
  /\ UNCHANGED <<estVars, traj, trajectory_mutex, kill_switch, frameVars, batchVars, cur, elapsed, slept, gap, pc_d, submaps, map_out, nMaps, queueVars>>

\* lines 186-188 with a subscriber on /glim_ros/map: the task goes on to rebuild
TaskRebuild ==
  /\ Running
  /\ pc_s = "task"
  /\ pc_s' = "rebuild"
  /\ UNCHANGED <<estVars, traj, trajectory_mutex, kill_switch, frameVars, batchVars, idx, cur, elapsed, slept, gap, pc_d, taskVars, queueVars>>

\* a drain that catches the exception of a task and goes on to the next one
TaskThrowCaught ==
  /\ Running
  /\ pc_s = "rebuild"
  /\ executed' = Append(executed, cur.id)
  /\ idx' = idx + 1
  /\ pc_s' = "drain"
  /\ UNCHANGED <<estVars, traj, trajectory_mutex, kill_switch, frameVars, batchVars, cur, elapsed, slept, gap, pc_d, submaps, map_out, nMaps, queueVars>>

\* lines 195-198: the allocation of the merged cloud throws; nothing between the
\* task and the thread function catches, so the exception leaves the thread
\* function and the process is terminated
TaskThrow ==
  /\ Running
  /\ pc_s = "rebuild"
  /\ pc_s' = "crashed"
  /\ UNCHANGED <<estVars, traj, trajectory_mutex, kill_switch, frameVars, batchVars, idx, cur, elapsed, slept, gap, pc_d, taskVars, queueVars>>

\* a count that looks at the newest retained frame only
TotalPointsLatest(ret) == IF ret = <<>> THEN 0 ELSE Len(PointsOf(ret[Len(ret)]))

\* lines 190-193
RECURSIVE TotalPoints(_)
TotalPoints(ret) == IF ret = <<>> THEN 0 ELSE Len(PointsOf(Head(ret))) + TotalPoints(Tail(ret))

\* line 203: submap_poses[i]; past the end of the vector the read is undefined
\* and yields whatever lies there (g)
PoseAt(poses, i, g) == IF i <= Len(poses) THEN poses[i] ELSE g[i]

TransformAll(pose, pts) == [j \in 1..Len(pts) |-> Apply(pose, pts[j])]

\* lines 200-205: the retained frames from position i on, each transformed by
\* the captured pose of the same position
RECURSIVE Fill(_, _, _, _)
Fill(ret, poses, g, i) == IF i > Len(ret) THEN <<>> ELSE TransformAll(PoseAt(poses, i, g), PointsOf(ret[i])) \o Fill(ret, poses, g, i + 1)

\* what an out-of-range read of the pose vector may return
StrayPoses == {<<1, 7>>, <<0 - 1, 0 - 7>>}

\* a closure that holds the submaps by reference and reads their poses when it runs
MergedLive(ret, task, g) == [task |-> task.id, frame |-> world_frame_id, num_points |-> TotalPoints(ret), points |-> Fill(ret, CapturePoses(task.batch, livePose), g, 1), retained |-> ret, batch |-> task.batch, poses |-> task.poses]

\* lines 195-198, 207-208
Merged(ret, task, g) == [task |-> task.id, frame |-> world_frame_id, num_points |-> TotalPoints(ret), points |-> Fill(ret, task.poses, g, 1), retained |-> ret, batch |-> task.batch, poses |-> task.poses]

\* lines 200-209: the merged cloud is filled and published;
\* g gives what each read past the end of submap_poses returns (its values at
\* the positions inside the vector are never read, and are fixed)
TaskPublish ==
  /\ Running
  /\ pc_s = "rebuild"
  /\ \E g \in [1..Len(submaps) -> StrayPoses] :
       /\ \A i \in 1..Len(cur.poses) : i <= Len(submaps) => g[i] = <<1, 7>>
       /\ map_out' = Merged(submaps, cur, g)
  /\ nMaps' = nMaps + 1
  /\ executed' = Append(executed, cur.id)
  /\ idx' = idx + 1
  /\ pc_s' = "drain"
  /\ UNCHANGED <<estVars, traj, trajectory_mutex, kill_switch, frameVars, batchVars, cur, elapsed, slept, gap, pc_d, submaps, queueVars>>

\* line 203 reading past the end of submap_poses may also fault: the process ends
TaskFault ==
  /\ Running
  /\ pc_s = "rebuild"
  /\ Len(submaps) > Len(cur.poses)
  /\ pc_s' = "crashed"
  /\ UNCHANGED <<estVars, traj, trajectory_mutex, kill_switch, frameVars, batchVars, idx, cur, elapsed, slept, gap, pc_d, taskVars, queueVars>>

\* a drain that leaves the queue as it was
ClearQueueKeep(q) == q

\* line 223
ClearQueue(q) == <<>>

\* lines 223-224, line 39: clear, unlock, t2
SpinDone ==
  /\ Running
  /\ pc_s = "drain"
  /\ DrainDone(idx, invoke_queue)
  /\ invoke_queue' = ClearQueue(invoke_queue)
  /\ invoke_queue_mutex' = "free"
  /\ \E d \in Durations : elapsed' = d
  /\ idx' = 1
  /\ cur' = NoTask
  /\ pc_s' = "timed"
  /\ UNCHANGED <<estVars, traj, trajectory_mutex, kill_switch, frameVars, batchVars, slept, gap, pc_d, taskVars, nTasks>>

\* a loop that sleeps after every cycle
ShouldSleepAlways(e) == TRUE

\* line 41
ShouldSleep(e) == e < Period

\* a sleep of the whole period, whatever the cycle took
SleepTimeFull(e) == Period

\* line 42
SleepTime(e) == Period - e

\* lines 41-43: the cycle was short, sleep for the rest of the period
SchedSleep ==
  /\ Running
  /\ pc_s = "timed"
  /\ ShouldSleep(elapsed)
  /\ slept' = <<SleepTime(elapsed)>>
  /\ gap' = <<elapsed + SleepTime(elapsed)>>
  /\ pc_s' = "loop"
  /\ UNCHANGED <<estVars, traj, trajectory_mutex, kill_switch, frameVars, batchVars, idx, cur, elapsed, pc_d, taskVars, queueVars>>

\* line 41 false: no sleep
SchedNoSleep ==
  /\ Running
  /\ pc_s = "timed"
  /\ ~ShouldSleep(elapsed)
  /\ slept' = <<>>
  /\ gap' = <<elapsed>>
  /\ pc_s' = "loop"
  /\ UNCHANGED <<estVars, traj, trajectory_mutex, kill_switch, frameVars, batchVars, idx, cur, elapsed, pc_d, taskVars, queueVars>>

(* --------------------------- owner thread ----------------------------- *)
\* line 49
DtorSetKill ==
  /\ Running
  /\ pc_d = "alive"
  /\ kill_switch' = TRUE
  /\ pc_d' = "joining"
  /\ UNCHANGED <<estVars, traj, trajectory_mutex, frameVars, batchVars, schedVars, taskVars, queueVars>>

\* a destructor that returns without waiting for the thread
DtorJoinNoWait ==
  /\ Running
  /\ pc_d = "joining"
  /\ pc_d' = "destroyed"
  /\ UNCHANGED <<estVars, traj, trajectory_mutex, kill_switch, frameVars, batchVars, schedVars, taskVars, queueVars>>

\* line 50
DtorJoin ==
  /\ Running
  /\ pc_d = "joining"
  /\ pc_s = "exited"
  /\ pc_d' = "destroyed"
  /\ UNCHANGED <<estVars, traj, trajectory_mutex, kill_switch, frameVars, batchVars, schedVars, taskVars, queueVars>>

(* --------------------------- specification ---------------------------- *)
FrameThread == FrameStart \/ FrameLock \/ FrameAddOdom \/ FrameReadWorldOdom \/ FrameReadWorldImu \/ FramePublish

BatchThread == EstimatorOptimize \/ BatchStart \/ BatchLock \/ BatchUpdateAnchor \/ BatchCapture \/ InvokeLock \/ InvokePush

SchedThread == SchedBegin \/ SchedExit \/ SpinLock \/ TaskStart \/ TaskSkip \/ TaskRebuild \/ TaskThrow \/ TaskPublish \/ TaskFault \/ SpinDone \/ SchedSleep \/ SchedNoSleep

OwnerThread == DtorSetKill \/ DtorJoin

Next == FrameThread \/ BatchThread \/ SchedThread \/ OwnerThread

Spec == Init /\ [][Next]_vars

\* The deferred-task side alone: the batch callback, the scheduler and the
\* destructor.  The frame thread shares only the trajectory and its mutex with
\* these, and writes none of the variables the queue, the tasks or the timing
\* read.
QueueNext == BatchThread \/ SchedThread \/ OwnerThread

QueueSpec == Init /\ [][QueueNext]_vars

\* The frame side alone: the new-frame callback next to the batch callback,
\* which moves the anchor under the same mutex.
FrameNext == FrameThread \/ BatchThread

FrameSpec == Init /\ [][FrameNext]_vars

\* The scheduler thread is scheduled whenever it can take a step, and a
\* producer that holds the queue mutex goes on to release it.
QueueFairSpec == QueueSpec /\ WF_vars(SchedThread) /\ WF_vars(InvokePush)

(* ------------------------------ claims -------------------------------- *)
\* the tasks the scheduler has yet to run: the whole queue, or during a drain
\* the part from the range-for position on
Pending == IF invoke_queue_mutex = "sched" THEN SubSeq(invoke_queue, idx, Len(invoke_queue)) ELSE invoke_queue

TaskIds(q) == [i \in 1..Len(q) |-> q[i].id]

\* C1: tasks run in enqueue order and at most once each, over any number of
\* drains and any interleaving of enqueues: the ids of the tasks run so far,
\* followed by the ids of the tasks still to run, are exactly 1..nTasks in
\* order (ids are given in enqueue order).
C1_FifoExactlyOnce == executed \o TaskIds(Pending) = [i \in 1..nTasks |-> i]

\* C1 witness: one drain has just run two tasks, in order
C1_Witness == pc_s = "drain" /\ idx = 3 /\ executed = <<1, 2>>

\* C2 (as claimed): while a drained task executes, the queue mutex is free
C2_TaskRunsUnlocked == pc_s = "task" => invoke_queue_mutex = "free"

\* C3 (as claimed): no enqueued task is lost, so when the scheduler thread has
\* returned every task enqueued has been executed
C3_NoTaskLost == pc_s = "exited" => \A n \in 1..nTasks : n \in Range(executed)

\* C3 (amended): under fair scheduling every enqueued task is eventually
\* executed, unless a stop is requested first or a task does not return
C3_EventuallyExecuted == \A n \in 1..MaxBatches : (nTasks >= n) ~> (n \in Range(executed) \/ kill_switch \/ ~Running)

\* C3 witness: a task enqueued after the first drain began has been executed by
\* a later drain, with no stop requested
C3_Witness == executed = <<1, 2>> /\ idx = 2 /\ pc_s = "drain" /\ ~kill_switch

\* C4 (as claimed): once a batch task has run, every submap of its batch is retained
C4_AppendsEveryNew == (cur.id # 0 /\ cur.id \in Range(executed)) => Range(cur.batch) \subseteq Range(submaps)

\* the sum of the point counts of the submaps of a list
RECURSIVE SizeSum(_)
SizeSum(q) == IF q = <<>> THEN 0 ELSE Len(PointsOf(Head(q))) + SizeSum(Tail(q))

\* no task is in the middle of its run
BetweenTasks == pc_s \notin {"task", "rebuild", "crashed"}

\* C5 (as claimed): whenever no task is in the middle of its run, the last
\* merged map has as many points as the retained submaps together
C5_CountAlways == BetweenTasks => map_out.num_points = SizeSum(submaps)

\* C5 (amended): every merged map built has as many points as the submaps
\* retained when it was built, and fills its buffer; and when the task run
\* last found a subscriber, the last merged map has as many points as the
\* submaps retained now
C5_CountAtRebuild ==
  /\ map_out.num_points = SizeSum(map_out.retained)
  /\ Len(map_out.points) = map_out.num_points
  /\ (BetweenTasks /\ executed # <<>> /\ map_out.task = executed[Len(executed)]) => map_out.num_points = SizeSum(submaps)

\* C5 witness: a merged map rebuilt from two retained submaps
C5_Witness == map_out.task # 0 /\ Len(map_out.retained) = 2 /\ map_out.num_points = SizeSum(submaps)

\* the position of submap s in the batch b
IndexIn(b, s) == CHOOSE i \in 1..Len(b) : b[i] = s

\* the points of the submaps of ret, each moved by the pose the batch b gave
\* for that same submap
RECURSIVE OwnPoseMap(_, _, _)
OwnPoseMap(ret, b, poses) == IF ret = <<>> THEN <<>> ELSE [j \in 1..Len(PointsOf(Head(ret))) |-> Apply(poses[IndexIn(b, Head(ret))], PointsOf(Head(ret))[j])] \o OwnPoseMap(Tail(ret), b, poses)

\* C6 (as claimed): a published merged map is the concatenation, in retention
\* order, of the retained submaps' points, each moved by its own world pose
\* (stated for the maps all of whose submaps are in the batch of the task)
C6_OwnPose == (map_out.task # 0 /\ Range(map_out.retained) \subseteq Range(map_out.batch)) => map_out.points = OwnPoseMap(map_out.retained, map_out.batch, map_out.poses)

\* the frames of a transform message, and the transform messages of a log
TfLinks(msgs) == LET tf == SelectSeq(msgs, LAMBDA m : m.kind = "tf") IN [i \in 1..Len(tf) |-> <<tf[i].parent, tf[i].child>>]

\* a finished new-frame event
FrameDone == pc_f = "idle" /\ fev.stamp > 0

NoSubscribers == ~fev.sub_points /\ ~fev.sub_odom /\ ~fev.sub_pose

\* C7: every new-frame event emits exactly three transform broadcasts, in the
\* order odom->imu, imu->lidar, world->odom, whatever the subscriber counts
C7_ThreeBroadcasts == FrameDone => TfLinks(fev.msgs) = << <<"odom", "imu">>, <<"imu", "lidar">>, <<"world", "odom">> >>

\* C7 witness: an event that found no subscriber on any output has finished
C7_Witness == FrameDone /\ NoSubscribers /\ Len(fev.msgs) = 3

\* the tracker holds the odometry sample of the last event
TrackerUpdated == Len(traj.samples) >= 1 /\ traj.samples[Len(traj.samples)] = <<fev.stamp, OdomPose(fev.stamp)>>

\* C8 (as claimed): an event without subscribers publishes nothing at all, and
\* still updates the tracker
C8_NothingPublished == (FrameDone /\ NoSubscribers) => (fev.msgs = <<>> /\ TrackerUpdated)

\* C8 (amended): an event without subscribers publishes no point, odometry or
\* pose message, still sends the three transform broadcasts, and still updates
\* the tracker
C8_OnlyTransforms == (FrameDone /\ NoSubscribers) => (Len(fev.msgs) = 3 /\ (\A i \in 1..Len(fev.msgs) : fev.msgs[i].kind = "tf") /\ TrackerUpdated)

\* C8 witness: such an event, after a batch event has moved the anchor
C8_Witness == FrameDone /\ NoSubscribers /\ TrackerUpdated /\ nBatches >= 1

\* a cycle of the scheduler loop has just ended
CycleDone == pc_s = "loop" /\ gap # <<>>

\* C9: the loop never sleeps a negative time: it sleeps only after a cycle
\* shorter than 10 ms, for the positive rest of the period, and after a cycle
\* of 10 ms or more it goes on without sleeping
C9_NoNegativeSleep ==
  /\ slept # <<>> => (slept[1] > 0 /\ elapsed < 10 /\ slept[1] = 10 - elapsed)
  /\ (CycleDone /\ elapsed >= 10) => (slept = <<>> /\ gap[1] = elapsed)
  /\ (CycleDone /\ elapsed < 10) => slept # <<>>

\* C9 witness: a cycle that took longer than the period has ended without sleep
C9_Witness == CycleDone /\ elapsed > 10 /\ slept = <<>>

\* C10: from the start of a cycle to the start of the next at least 10 ms
\* pass, and more than 10 ms exactly when the work of the cycle took more
C10_NeverFaster == CycleDone => (gap[1] >= 10 /\ (gap[1] > 10 <=> elapsed > 10))

\* C10 witness: a short cycle has been stretched to the period by its sleep
C10_Witness == CycleDone /\ elapsed > 0 /\ elapsed < 10 /\ gap[1] = 10

(* ------------------------------ stopping ------------------------------ *)
\* the scheduler thread is scheduled, a producer inside invoke() finishes its
\* push, and join() returns once the thread function has returned
StopFairSpec == QueueSpec /\ WF_vars(SchedThread) /\ WF_vars(InvokePush) /\ WF_vars(DtorJoin)

\* RUNNING, STOPPING, STOPPED as read off the flag and the thread
SchedState == IF pc_s = "exited" THEN "STOPPED" ELSE IF kill_switch THEN "STOPPING" ELSE "RUNNING"

\* one step of the stop sequence: the state stays or moves one stage on, and a
\* stopped scheduler runs nothing
StopOrder ==
  /\ (SchedState = "RUNNING" => SchedState' \in {"RUNNING", "STOPPING"})
  /\ (SchedState = "STOPPING" => SchedState' \in {"STOPPING", "STOPPED"})
  /\ (SchedState = "STOPPED" => (SchedState' = "STOPPED" /\ UNCHANGED <<schedVars, taskVars>>))

\* C11: the destructor has returned only if the flag is set and the scheduler
\* thread has left its loop; the scheduler state only moves RUNNING -> STOPPING
\* -> STOPPED, and once STOPPED no cycle runs and nothing the tasks write
\* changes; and, as long as no task tears the process down, a destructor that
\* has set the flag eventually returns
C11_CleanStop ==
  /\ [](pc_d = "destroyed" => (kill_switch /\ pc_s = "exited"))
  /\ [][StopOrder]_vars
  /\ (pc_d = "joining" ~> (pc_d = "destroyed" \/ ~Running))

\* the destructor has returned after the scheduler had run both tasks
C11_Witness == pc_d = "destroyed" /\ pc_s = "exited" /\ executed = <<1, 2>>

(* --------------------------- alignment lock --------------------------- *)
\* the frame callback is between its add and its second read
FrameInTracker == pc_f \in {"add_odom", "read_odom", "read_imu"}

\* C12: from the add of the odometry sample to the second read the frame
\* callback holds the alignment lock and the batch callback is not inside its
\* anchor update; the world->odom value read first is still the tracker's when
\* the body pose is read; and the two values published for the frame agree on
\* the anchor: the body pose is the world->odom transform applied to the
\* frame's odometry pose
C12_SameAnchor ==
  /\ (FrameInTracker => (trajectory_mutex = "frame" /\ pc_m # "anchor"))
  /\ (pc_f = "read_imu" => fr.T_world_odom = get_T_world_odom(traj))
  /\ (pc_f = "publish" => fr.T_world_imu = Compose(fr.T_world_odom, fr.T_odom_imu))

\* a frame is about to be published with values read after a batch event had
\* moved the anchor, while a further batch event waits for the lock or has
\* just taken it
C12_Witness == pc_f = "publish" /\ fr.T_world_odom # Identity /\ pc_m \in {"lock", "anchor"}

(* ------------------------- batch event ordering ----------------------- *)
\* the world pose of the end of submap s as the estimator has it now
WorldEndpoint(s) == Compose(livePose[s], EndpointOf(s))

\* the batch callback is past its anchor update and has not returned
BatchAnchored == pc_m \in {"capture", "invoke", "push"}

\* a step that changes what the rebuild task writes is a step of the scheduler
\* thread inside a task, and leaves the batch callback where it is
RebuildOnScheduler ==
  (submaps' # submaps \/ map_out' # map_out \/ executed' # executed) =>
    (pc_s \in {"drain", "task", "rebuild"} /\ invoke_queue_mutex = "sched" /\ pc_m' = pc_m /\ bt' = bt)

\* a step that replaces the anchor is the batch callback's own, under the
\* alignment lock, and applies update_anchor to the last submap's last odometry
\* stamp and the world pose of its end
AnchorOnProducer ==
  (traj'.anchor_world # traj.anchor_world \/ traj'.anchor_odom # traj.anchor_odom) =>
    /\ pc_m = "anchor" /\ pc_m' = "capture" /\ trajectory_mutex = "batch"
    /\ traj' = update_anchor(traj, EndStamp(bt.latest), WorldEndpoint(bt.latest))
    /\ nTasks' = nTasks /\ submaps' = submaps

\* the step that enqueues the rebuild task and returns from the callback finds
\* the anchor already replaced, and the task it enqueues has not run
EnqueueAfterAnchor ==
  nTasks' # nTasks =>
    /\ nTasks' = nTasks + 1
    /\ traj.anchor_world = bt.T_world_endpoint
    /\ traj'.anchor_world = traj.anchor_world
    /\ (nTasks + 1) \notin Range(executed')
    /\ Len(submaps') <= nTasks

\* C13: between the anchor update and the return of the batch callback the
\* anchor is the world pose of the end of the last submap of the batch, keyed by
\* that submap's last odometry stamp; the enqueue comes after it; and the
\* append and the rebuild are steps of the scheduler thread only, at most one
\* append per enqueued task
C13_AnchorThenDefer ==
  /\ [](BatchAnchored => traj.anchor_world = WorldEndpoint(bt.latest))
  /\ [][AnchorOnProducer]_vars
  /\ [](Len(submaps) <= nTasks)
  /\ [][EnqueueAfterAnchor]_vars
  /\ [][RebuildOnScheduler]_vars

\* the second batch event has replaced the anchor, keyed to a recorded odometry
\* sample, and is about to enqueue its task, while the task of the first event
\* has been appended by the scheduler
C13_Witness == pc_m = "push" /\ nTasks = 1 /\ Len(submaps) = 1 /\ traj.anchor_world = WorldEndpoint(bt.latest) /\ traj.anchor_odom # Identity

(* ---------------------------- map emission ---------------------------- *)
\* the task in progress has appended the frame of its latest submap
Appended == Len(submaps) >= 1 /\ submaps[Len(submaps)] = cur.latest

\* the return of a task that found no subscriber: appended, nothing rebuilt,
\* nothing published
ReturnsUnpublished ==
  (pc_s = "task" /\ pc_s' = "drain") =>
    (Appended /\ submaps' = submaps /\ map_out' = map_out /\ nMaps' = nMaps /\ executed' = Append(executed, cur.id))

\* the return of a task that found a subscriber: one message, built by this
\* task from the retained list with its own frame appended
ReturnsPublished ==
  (pc_s = "rebuild" /\ pc_s' = "drain") =>
    (Appended /\ submaps' = submaps /\ nMaps' = nMaps + 1 /\ map_out'.task = cur.id /\ map_out'.retained = submaps /\ executed' = Append(executed, cur.id))

\* a message is emitted by no other step
EmittedByTask == (nMaps' # nMaps \/ map_out' # map_out) => (pc_s = "rebuild" /\ pc_s' = "drain")

\* C14: a task that finds a subscriber on the merged-map output emits one
\* merged map, a task that finds none appends and emits nothing, and no other
\* step emits; so there are never more messages than tasks run
C14_OncePerTask ==
  /\ [][ReturnsUnpublished]_vars
  /\ [][ReturnsPublished]_vars
  /\ [][EmittedByTask]_vars
  /\ [](nMaps <= Len(executed))

\* two tasks have run, the first without a subscriber and the second with one:
\* one message, built from both retained frames
C14_Witness == executed = <<1, 2>> /\ nMaps = 1 /\ map_out.task = 2 /\ Len(map_out.retained) = 2

(* ---------------------------- task failure ---------------------------- *)
\* a task that found a subscriber is left either by its publish or by the end
\* of the process: no step skips it, runs it again or goes on to the next task
\* without the publish
NotCaught ==
  (pc_s = "rebuild" /\ pc_s' # "rebuild") =>
    \/ pc_s' = "crashed" /\ UNCHANGED <<idx, cur, taskVars, queueVars>>
    \/ pc_s' = "drain" /\ nMaps' = nMaps + 1

\* after the failure nothing of the scheduler moves again
NotRestarted == pc_s = "crashed" => (pc_s' = "crashed" /\ UNCHANGED <<idx, cur, taskVars>>)

\* C15: a failing task is not caught: it ends the scheduler thread with the
\* failed task unrecorded and the tasks behind it still queued; from then on no
\* task is executed, no merged map is published and the thread is not started
\* again
C15_FailureEndsScheduler ==
  /\ [][NotCaught]_vars
  /\ [][NotRestarted]_vars
  /\ [](pc_s = "crashed" => (cur.id \notin Range(executed) /\ invoke_queue_mutex = "sched" /\ invoke_queue[idx] = cur))

\* the first task of a drain of two has failed: the second is still queued and
\* is never run
C15_Witness == pc_s = "crashed" /\ idx = 1 /\ Len(invoke_queue) = 2 /\ executed = <<>>

(* ------------------------------ anchoring ----------------------------- *)
\* the world poses a batch event can hand to update_anchor
AnchorPoses == {Compose(InitPose(s), EndpointOf(s)) : s \in SubmapIds} \cup {Compose(OptimizedPose(s), EndpointOf(s)) : s \in SubmapIds}

\* in tracker state tr: anchoring at any recorded stamp to any pose P, then
\* composing the pose recorded at that stamp, gives P
ExactAtSample(tr) ==
  \A i \in 1..Len(tr.samples), P \in AnchorPoses :
    odom2world(update_anchor(tr, tr.samples[i][1], P), tr.samples[i][2]) = P

\* the batch callback has anchored on the sample recorded at its stamp: that
\* sample's pose composes to the world pose the event handed over
AnchoredExact ==
  BatchAnchored =>
    \A i \in 1..Len(traj.samples) :
      traj.samples[i] = <<EndStamp(bt.latest), traj.anchor_odom>> => odom2world(traj, traj.samples[i][2]) = WorldEndpoint(bt.latest)

Chunk(m, i) == SubSeq(m.points, SizeSum(SubSeq(m.retained, 1, i - 1)) + 1, SizeSum(SubSeq(m.retained, 1, i)))

\* a task holds the poses of its batch as the estimator had them at the event:
\* all before, or all after, the re-estimation
CapturedAtEvent(t) == t.poses = [i \in 1..Len(t.batch) |-> InitPose(t.batch[i])] \/ t.poses = [i \in 1..Len(t.batch) |-> OptimizedPose(t.batch[i])]

\* a change of the live poses leaves the queued tasks and the task in progress
\* as they are
LiveChangeKeepsTasks == livePose' # livePose => (invoke_queue' = invoke_queue /\ cur' = cur /\ map_out' = map_out)

\* C17: every position of a published cloud that has a captured pose holds the
\* retained frame transformed by that captured pose, whatever the live poses
\* are when the task runs; the captured poses are those of the event, and a
\* later change of the live poses does not reach a queued task
C17_PosesByValue ==
  /\ [](map_out.task # 0 => \A i \in 1..Len(map_out.retained) : i <= Len(map_out.poses) => Chunk(map_out, i) = TransformAll(map_out.poses[i], PointsOf(map_out.retained[i])))
  /\ [](\A k \in 1..Len(invoke_queue) : CapturedAtEvent(invoke_queue[k]))
  /\ [](map_out.task # 0 => map_out.poses \in {[i \in 1..Len(map_out.batch) |-> InitPose(map_out.batch[i])], [i \in 1..Len(map_out.batch) |-> OptimizedPose(map_out.batch[i])]})
  /\ [][LiveChangeKeepsTasks]_vars

\* a cloud was published from poses captured before the estimator moved them:
\* it still shows the old poses
C17_Witness ==
  /\ map_out.task # 0 /\ Len(map_out.retained) = 1
  /\ map_out.poses # CapturePoses(map_out.batch, livePose)
  /\ map_out.points = TransformAll(InitPose(map_out.batch[1]), PointsOf(map_out.retained[1]))
  /\ map_out.points # TransformAll(livePose[map_out.batch[1]], PointsOf(map_out.retained[1]))

(* ---------------------------- stop latency ---------------------------- *)
\* with the flag set no task is started
NoTaskStartAfterStop == kill_switch => ~(pc_s = "drain" /\ pc_s' = "task")

\* C18 as stated: once the stop flag is set the scheduler starts no further task
C18_AtMostTaskInProgress == [][NoTaskStartAfterStop]_vars

\* with the flag set no cycle is started; a drain ends only when every task in
\* it has run, flag or no flag; and the thread leaves only at the loop test,
\* with the flag set
CycleFinishesThenExit ==
  /\ (kill_switch /\ pc_s = "loop" => pc_s' \in {"loop", "exited"})
  /\ (pc_s = "drain" /\ pc_s' # "drain" /\ pc_s' # "task" => (DrainDone(idx, invoke_queue) /\ pc_s' = "timed"))
  /\ (pc_s # "exited" /\ pc_s' = "exited" => (pc_s = "loop" /\ kill_switch))

\* C18 amended: once the stop flag is set the scheduler starts no further
\* cycle; it finishes the cycle in progress, every task of its drain included,
\* and leaves at the next loop test
C18_AtMostCycleInProgress == [][CycleFinishesThenExit]_vars

\* the flag is set while a drain holds two tasks and has started neither: both
\* are started after the stop request
C18_Witness == kill_switch /\ pc_s = "drain" /\ idx = 1 /\ Len(invoke_queue) = 2 /\ executed = <<>> /\ pc_d = "joining"

(* ----------------------------- pose index ----------------------------- *)
\* C19: when a task rebuilds, the retained list (its own append included) is no
\* longer than the pose vector the task captured, so every submap_poses[i] of
\* the fill loop is inside the vector
C19_IndexInBounds == pc_s = "rebuild" => Len(submaps) <= Len(cur.poses)

(* ----------------------------- lock order ----------------------------- *)
\* the locks each thread holds
HeldBy(t) == (IF trajectory_mutex = t THEN {"trajectory_mutex"} ELSE {}) \cup (IF invoke_queue_mutex = t THEN {"invoke_queue_mutex"} ELSE {})

\* the thread waits for a lock some other thread holds
FrameWaits == pc_f = "lock" /\ trajectory_mutex # "free"

BatchWaits == (pc_m = "lock" /\ trajectory_mutex # "free") \/ (pc_m = "invoke" /\ invoke_queue_mutex # "free")

SchedWaits == pc_s = "spin" /\ invoke_queue_mutex # "free"

\* C20: no thread holds both locks; a thread that waits for a lock holds none,
\* so no thread waits for a lock while keeping another thread from one; and a
\* lock that is held is held by a thread that is not waiting and is at a step
\* inside its critical section; whenever a thread waits, some thread can step
C20_NoLockNesting ==
  /\ \A t \in {"frame", "batch", "sched"} : Cardinality(HeldBy(t)) <= 1
  /\ trajectory_mutex \in {"free", "frame", "batch"} /\ invoke_queue_mutex \in {"free", "batch", "sched"}
  /\ (FrameWaits => HeldBy("frame") = {})
  /\ (BatchWaits => HeldBy("batch") = {})
  /\ (SchedWaits => HeldBy("sched") = {})
  /\ (trajectory_mutex = "frame" <=> pc_f \in {"add_odom", "read_odom", "read_imu"})
  /\ (trajectory_mutex = "batch" <=> pc_m = "anchor")
  /\ (invoke_queue_mutex = "batch" <=> pc_m = "push")
  /\ (invoke_queue_mutex = "sched" <=> pc_s \in {"drain", "task", "rebuild", "crashed"})
  /\ ((Running /\ (FrameWaits \/ BatchWaits \/ SchedWaits)) => ENABLED (FrameThread \/ BatchThread \/ SchedThread))

\* both locks are held, by two different threads, while the third waits for one
\* of them
C20_Witness == trajectory_mutex = "frame" /\ invoke_queue_mutex = "sched" /\ pc_s = "task" /\ pc_m = "lock" /\ BatchWaits

====
